---------------------------- MODULE Spec2Model ----------------------------
(***************************************************************************)
(* A model of the GTP front end of the Gomoku engine (gtp_connection.py):  *)
(* the command handlers that change the game, and the incremental run      *)
(* tracker (insertKeyIntoDict) that decides when a game is won.            *)
(*                                                                         *)
(* The board object (board.reset, board.play_move, board.get_empty_points, *)
(* board.is_legal), coord_to_point and the move generator                  *)
(* (go_engine.get_move) are imported by gtp_connection.py and are modelled *)
(* from the specification's section 4.1.                                   *)
(***************************************************************************)
EXTENDS Integers, Sequences, FiniteSets, TLC

VARIABLES
    running,             \* the command loop of start_connection is alive
    size,                \* self.board.size
    board,               \* self.board.board: point -> EMPTY / BLACK / WHITE
    current_player,      \* self.board.current_player
    trackerSet,          \* clear_board_cmd has created the dicts and colorMax
    dictStoreBlackMove,  \* (row, col) -> run length per direction, Black
    dictStoreWhiteMove,  \* (row, col) -> run length per direction, White
    colorMax,            \* self.colorMax: 'b' / 'w' -> longest run so far
    reply                \* the answer written for the command being served

vars == <<running, size, board, current_player, trackerSet,
          dictStoreBlackMove, dictStoreWhiteMove, colorMax, reply>>

tracker == <<trackerSet, dictStoreBlackMove, dictStoreWhiteMove, colorMax>>

---------------------------------------------------------------------------
(* Constants of board_util and of the handlers *)

EMPTY == 0
BLACK == 1
WHITE == 2
PASS == -1
MAXSIZE == 25
WinLength == 5

(* Bounds of the model *)

\* The largest board of the model.
BigSize == 6
\* The sizes of the board the connection is built with.
Sizes == {2, BigSize}
\* The size the boardsize command asks for.
ResizeTo == {2}
\* An out-of-range size the boardsize command is also given.
BadSizes == {1}
\* Stones put on the board by genmove at any one time.
MaxGen == 1
\* Cap on a stored run length (a stale tracker grows without limit).
MaxRunVal == 8
\* Tracked cells that a boardsize command may leave behind.
MaxStale == 1

\* The same, in the games that only restart the smallest board.
MaxStaleSmall == 2
\* The same, in the games that shrink the board under a tracked first row.
MaxStaleRow == 3

Colors == {"b", "w"}
Directions == {"upDown", "leftRight", "backslash", "forwardslash"}

---------------------------------------------------------------------------
(* Coordinates, points and move strings *)

\* A move string is "pass" or a column letter (0 = 'a' .. 25 = 'z')
\* followed by a decimal row; an unparsable row is represented by row 0.
PassStr == [pass |-> TRUE, col_c |-> 0, row |-> 0]
PointStr(l, r) == [pass |-> FALSE, col_c |-> l, row |-> r]

LetterI == 8

ValueError == <<>>

color_to_int(c) == IF c = "b" THEN BLACK ELSE IF c = "w" THEN WHITE ELSE EMPTY

opponent(color) == WHITE + BLACK - color

coord_to_point(row, col, boardsize) == (boardsize + 1) * row + col

point_to_coord(point, boardsize) ==
    <<point \div (boardsize + 1), point % (boardsize + 1)>>

move_to_coord(s, board_size) ==
    IF ~(2 <= board_size /\ board_size <= MAXSIZE) THEN ValueError
    ELSE IF s.col_c = LetterI THEN ValueError
    ELSE LET col == IF s.col_c < LetterI THEN s.col_c + 1 ELSE s.col_c
         IN  IF s.row < 1 THEN ValueError
             ELSE IF ~(col <= board_size /\ s.row <= board_size) THEN ValueError
             ELSE <<s.row, col>>

format_point(move) ==
    LET row == move[1]
        col == move[2]
    IN  IF ~(0 <= row /\ row < MAXSIZE) \/ ~(0 <= col /\ col < MAXSIZE)
        THEN ValueError
        ELSE LET i == IF col = 0 THEN MAXSIZE - 1 ELSE col - 1
             IN  <<IF i < LetterI THEN i ELSE i + 1, row>>

---------------------------------------------------------------------------
(* The board *)

Points(n) == {coord_to_point(r, c, n) : r \in 1..n, c \in 1..n}

EmptyBoard(n) == [p \in Points(n) |-> EMPTY]

get_empty_points == {p \in DOMAIN board : board[p] = EMPTY}

Stones == {point_to_coord(p, size) : p \in DOMAIN board \ get_empty_points}

---------------------------------------------------------------------------
(* The run tracker *)

EmptyDict == [k \in {} |-> 0]

NewEntry == [upDown |-> 1, leftRight |-> 1, backslash |-> 1, forwardslash |-> 1]

\* The first and the second neighbour step of each direction.
Step1(key) ==
    CASE key = "upDown"       -> <<-1, 0>>
      [] key = "leftRight"    -> <<0, -1>>
      [] key = "forwardslash" -> <<-1, 1>>
      [] key = "backslash"    -> <<-1, -1>>

Step2(key) ==
    CASE key = "upDown"       -> <<1, 0>>
      [] key = "leftRight"    -> <<0, 1>>
      [] key = "forwardslash" -> <<1, -1>>
      [] key = "backslash"    -> <<1, 1>>

At(coord, step, i) == <<coord[1] + i * step[1], coord[2] + i * step[2]>>

\* while nb in dictPointer.keys(): dictPointer[nb][key] = dictPointer[coord][key]
RECURSIVE Walk(_, _, _, _, _)
Walk(d, coord, key, step, i) ==
    IF At(coord, step, i) \in DOMAIN d
    THEN Walk([d EXCEPT ![At(coord, step, i)][key] = d[coord][key]],
              coord, key, step, i + 1)
    ELSE d

\* if nb in dictPointer.keys(): add its length to coord's, then walk that side
Absorb(d, coord, key, step) ==
    IF At(coord, step, 1) \in DOMAIN d
    THEN Walk([d EXCEPT ![coord][key] = @ + d[At(coord, step, 1)][key]],
              coord, key, step, 1)
    ELSE d

\* (variant: the first side is not walked again after the second was added)
UpdateDirectionNoRewalk(d, coord, key) ==
    Absorb(Absorb(d, coord, key, Step1(key)), coord, key, Step2(key))

\* One branch of the loop over the four keys of the placed cell.
UpdateDirection(d, coord, key) ==
    Walk(Absorb(Absorb(d, coord, key, Step1(key)), coord, key, Step2(key)),
         coord, key, Step1(key), 1)

setdefault(d, coord) ==
    [k \in DOMAIN d \cup {coord} |-> IF k \in DOMAIN d THEN d[k] ELSE NewEntry]

\* The player's dict after insertKeyIntoDict(color, coord, move).
UpdatedDict(d, coord) ==
    UpdateDirection(
        UpdateDirection(
            UpdateDirection(
                UpdateDirection(setdefault(d, coord), coord, "upDown"),
                coord, "leftRight"),
            coord, "backslash"),
        coord, "forwardslash")

MaxOf(S) == CHOOSE m \in S : \A x \in S : x <= m

\* (variant: colorMax is set from the placed cell alone)
UpdatedMaxFromCell(cm, color, entry) ==
    [cm EXCEPT ![color] = MaxOf({entry[k] : k \in Directions})]

\* (variant: the maximum is kept under the other colour's key)
UpdatedMaxOtherKey(cm, color, entry) ==
    [cm EXCEPT ![IF color = "b" THEN "w" ELSE "b"] =
                   MaxOf({cm[color]} \cup {entry[k] : k \in Directions})]

\* for key, value in dictPointer[coord].items(): raise colorMax[color]
UpdatedMax(cm, color, entry) ==
    [cm EXCEPT ![color] = MaxOf({cm[color]} \cup {entry[k] : k \in Directions})]

dictOf(c) == IF c = "w" THEN dictStoreWhiteMove ELSE dictStoreBlackMove

\* (variant: the placed cell is entered in the maps of both players)
insertKeyIntoDict_BothDicts(color, coord) ==
    /\ dictStoreWhiteMove' = UpdatedDict(dictStoreWhiteMove, coord)
    /\ dictStoreBlackMove' = UpdatedDict(dictStoreBlackMove, coord)
    /\ colorMax' = UpdatedMax(colorMax, color, UpdatedDict(dictOf(color), coord)[coord])

insertKeyIntoDict(color, coord) ==
    LET d == UpdatedDict(dictOf(color), coord)
    IN  /\ dictStoreWhiteMove' = IF color = "w" THEN d ELSE dictStoreWhiteMove
        /\ dictStoreBlackMove' = IF color = "b" THEN d ELSE dictStoreBlackMove
        /\ colorMax' = UpdatedMax(colorMax, color, d[coord])

\* (variant: only White's longest run ends the game)
GameOverWhiteOnly == colorMax["w"] >= WinLength

Tracked == DOMAIN dictStoreBlackMove \cup DOMAIN dictStoreWhiteMove

GameOver == colorMax["w"] >= WinLength \/ colorMax["b"] >= WinLength

---------------------------------------------------------------------------
(* The commands *)

Answer(cmd, resp) == [cmd |-> cmd, resp |-> resp, color |-> "", coord |-> <<>>, moves |-> {}]

NoReply == Answer("", "")

\* The loop of start_connection is blocked in readline, ready for a command.
Waiting == running /\ reply = NoReply

Init ==
    /\ running = TRUE
    /\ size \in Sizes
    /\ board = EmptyBoard(size)
    /\ current_player = BLACK
    /\ trackerSet = FALSE
    /\ dictStoreBlackMove = EmptyDict
    /\ dictStoreWhiteMove = EmptyDict
    /\ colorMax = [b |-> 0, w |-> 0]
    /\ reply = NoReply

\* An exception that leaves the handler ends the command loop (get_cmd re-raises).
Crash(cmd) ==
    /\ running' = FALSE
    /\ reply' = Answer(cmd, "exception")
    /\ UNCHANGED <<size, board, current_player, tracker>>

\* The answer is written; the loop goes back to read the next line.
start_connection ==
    /\ running
    /\ reply # NoReply
    /\ reply' = NoReply
    /\ UNCHANGED <<running, size, board, current_player, tracker>>

clear_board_cmd ==
    /\ Waiting
    /\ board' = EmptyBoard(size)
    /\ current_player' = BLACK
    /\ trackerSet' = TRUE
    /\ dictStoreWhiteMove' = EmptyDict
    /\ dictStoreBlackMove' = EmptyDict
    /\ colorMax' = [b |-> 0, w |-> 0]
    /\ reply' = Answer("clear_board", "")
    /\ UNCHANGED <<running, size>>

boardsize_cmd(n) ==
    /\ Waiting
    /\ IF 2 <= n /\ n <= MAXSIZE
       THEN /\ size' = n
            /\ board' = EmptyBoard(n)
            /\ current_player' = BLACK
            /\ reply' = Answer("boardsize", "")
            /\ UNCHANGED <<running, tracker>>
       ELSE Crash("boardsize")

\* (variant: a pass leaves the turn with the passing colour)
play_cmd_PassKeepsTurn(c, s) ==
    /\ Waiting
    /\ IF s.pass
       THEN /\ current_player' = color_to_int(c)
            /\ reply' = Answer("play", "")
            /\ UNCHANGED <<running, size, board, tracker>>
       ELSE LET coord == move_to_coord(s, size)
                move == coord_to_point(coord[1], coord[2], size)
            IN  IF coord = ValueError
                THEN /\ reply' = Answer("play", "Error: point")
                     /\ UNCHANGED <<running, size, board, current_player, tracker>>
                ELSE IF ~trackerSet
                THEN /\ reply' = Answer("play", "Error: colorMax")
                     /\ UNCHANGED <<running, size, board, current_player, tracker>>
                ELSE IF GameOver
                THEN /\ reply' = Answer("play", "One side is win game over!")
                     /\ UNCHANGED <<running, size, board, current_player, tracker>>
                ELSE IF board[move] # EMPTY
                THEN /\ reply' = Answer("play", "Illegal Move")
                     /\ UNCHANGED <<running, size, board, current_player, tracker>>
                ELSE /\ board' = [board EXCEPT ![move] = color_to_int(c)]
                     /\ insertKeyIntoDict(c, coord)
                     /\ reply' = [Answer("play", "") EXCEPT !.color = c, !.coord = coord]
                     /\ UNCHANGED <<running, size, current_player, trackerSet>>

\* (variant: the stone is recorded before the board refuses the move)
play_cmd_RecordFirst(c, s) ==
    /\ Waiting
    /\ IF s.pass
       THEN /\ current_player' = opponent(color_to_int(c))
            /\ reply' = Answer("play", "")
            /\ UNCHANGED <<running, size, board, tracker>>
       ELSE LET coord == move_to_coord(s, size)
                move == coord_to_point(coord[1], coord[2], size)
            IN  IF coord = ValueError
                THEN /\ reply' = Answer("play", "Error: point")
                     /\ UNCHANGED <<running, size, board, current_player, tracker>>
                ELSE IF ~trackerSet
                THEN /\ reply' = Answer("play", "Error: colorMax")
                     /\ UNCHANGED <<running, size, board, current_player, tracker>>
                ELSE IF GameOver
                THEN /\ reply' = Answer("play", "One side is win game over!")
                     /\ UNCHANGED <<running, size, board, current_player, tracker>>
                ELSE IF board[move] # EMPTY
                THEN /\ reply' = Answer("play", "Illegal Move")
                     /\ insertKeyIntoDict(c, coord)
                     /\ UNCHANGED <<running, size, board, current_player, trackerSet>>
                ELSE /\ board' = [board EXCEPT ![move] = color_to_int(c)]
                     /\ insertKeyIntoDict(c, coord)
                     /\ reply' = [Answer("play", "") EXCEPT !.color = c, !.coord = coord]
                     /\ UNCHANGED <<running, size, current_player, trackerSet>>

play_cmd(c, s) ==
    /\ Waiting
    /\ IF s.pass
       THEN /\ current_player' = opponent(color_to_int(c))
            /\ reply' = Answer("play", "")
            /\ UNCHANGED <<running, size, board, tracker>>
       ELSE LET coord == move_to_coord(s, size)
                move == coord_to_point(coord[1], coord[2], size)
            IN  IF coord = ValueError
                THEN /\ reply' = Answer("play", "Error: point")
                     /\ UNCHANGED <<running, size, board, current_player, tracker>>
                ELSE IF ~trackerSet
                THEN /\ reply' = Answer("play", "Error: colorMax")
                     /\ UNCHANGED <<running, size, board, current_player, tracker>>
                ELSE IF GameOver
                THEN /\ reply' = Answer("play", "One side is win game over!")
                     /\ UNCHANGED <<running, size, board, current_player, tracker>>
                ELSE IF board[move] # EMPTY
                THEN /\ reply' = Answer("play", "Illegal Move")
                     /\ UNCHANGED <<running, size, board, current_player, tracker>>
                ELSE /\ board' = [board EXCEPT ![move] = color_to_int(c)]
                     /\ insertKeyIntoDict(c, coord)
                     /\ reply' = [Answer("play", "") EXCEPT !.color = c, !.coord = coord]
                     /\ UNCHANGED <<running, size, current_player, trackerSet>>

\* The move generator: some empty point, or a pass on a full board.
get_move == IF get_empty_points = {} THEN {PASS} ELSE get_empty_points

\* (variant: a move is generated although the game is won)
genmove_cmd_NoResign(c) ==
    /\ Waiting
    /\ IF ~trackerSet
       THEN Crash("genmove")
       ELSE \E move \in get_move :
              IF move = PASS
              THEN /\ reply' = Answer("genmove", "pass")
                   /\ UNCHANGED <<running, size, board, current_player, tracker>>
              ELSE LET move_coord == point_to_coord(move, size)
                   IN  IF format_point(move_coord) = ValueError
                       THEN Crash("genmove")
                       ELSE /\ board' = [board EXCEPT ![move] = color_to_int(c)]
                            /\ reply' = [Answer("genmove", "") EXCEPT
                                             !.color = c, !.coord = move_coord]
                            /\ UNCHANGED <<running, size, current_player, tracker>>

genmove_cmd(c) ==
    /\ Waiting
    /\ IF ~trackerSet
       THEN Crash("genmove")
       ELSE IF GameOver
       THEN /\ reply' = Answer("genmove", "resign")
            /\ UNCHANGED <<running, size, board, current_player, tracker>>
       ELSE \E move \in get_move :
              IF move = PASS
              THEN /\ reply' = Answer("genmove", "pass")
                   /\ UNCHANGED <<running, size, board, current_player, tracker>>
              ELSE LET move_coord == point_to_coord(move, size)
                   IN  IF format_point(move_coord) = ValueError
                       THEN Crash("genmove")
                       ELSE /\ board' = [board EXCEPT ![move] = color_to_int(c)]
                            /\ reply' = [Answer("genmove", "") EXCEPT
                                             !.color = c, !.coord = move_coord]
                            /\ UNCHANGED <<running, size, current_player, tracker>>

\* The moves gogui-rules_legal_moves lists (sorted and joined in the answer).
legal_moves ==
    IF GameOver THEN {} ELSE {format_point(point_to_coord(p, size)) : p \in get_empty_points}

gogui_rules_legal_moves_cmd ==
    /\ Waiting
    /\ IF ~trackerSet
       THEN Crash("legal_moves")
       ELSE /\ reply' = [Answer("legal_moves", "") EXCEPT !.moves = legal_moves]
            /\ UNCHANGED <<running, size, board, current_player, tracker>>

gogui_rules_final_result_cmd ==
    /\ Waiting
    /\ IF get_empty_points = {}
       THEN /\ reply' = Answer("final_result", "draw")
            /\ UNCHANGED <<running, size, board, current_player, tracker>>
       ELSE IF ~trackerSet
       THEN Crash("final_result")
       ELSE /\ reply' = Answer("final_result",
                               IF colorMax["w"] >= WinLength THEN "white win"
                               ELSE IF colorMax["b"] >= WinLength THEN "black win"
                               ELSE "unknown")
            /\ UNCHANGED <<running, size, board, current_player, tracker>>

---------------------------------------------------------------------------
(* The scope of the model: the commands it sends.  The stones and tracked   *)
(* cells of one game all lie on one line of the largest board or in its     *)
(* corner block.                                                            *)

Regions ==
    { {<<1, c>> : c \in 1..BigSize},
      {<<r, 1>> : r \in 1..BigSize},
      {<<i, i>> : i \in 1..BigSize},
      {<<i, BigSize + 1 - i>> : i \in 1..BigSize},
      {<<r, c>> : r \in 1..2, c \in 1..3} }

SmallBoard == (1..2) \X (1..2)

InScope(coord) ==
    LET used == Stones \cup Tracked
    IN  \E R \in Regions : coord \in R /\ used \subseteq R

ValuesInBound(d) == \A k \in DOMAIN d : \A key \in Directions : d[k][key] <= MaxRunVal

\* The move strings: the cells of the regions, and one string of each refused
\* kind (column off the board, row off the board, the letter i, a row below 1).
StrOf(coord) == PointStr(format_point(coord)[1], format_point(coord)[2])

BadStrs ==
    {PointStr(BigSize, 1), PointStr(0, BigSize + 1), PointStr(LetterI, 1), PointStr(0, 0)}

PlayStrs == {StrOf(coord) : coord \in UNION Regions} \cup BadStrs

\* With every command in play: the cells of the first row and of the smallest board.
FullStrs ==
    {StrOf(coord) : coord \in {<<1, c>> : c \in 1..BigSize} \cup SmallBoard}
    \cup BadStrs \cup {PassStr}

\* A play command within the scope.
Play(c, s) ==
    /\ play_cmd(c, s)
    /\ (reply'.cmd = "play" /\ reply'.resp = "" /\ reply'.coord # <<>>) => InScope(reply'.coord)
    /\ ValuesInBound(dictStoreBlackMove')
    /\ ValuesInBound(dictStoreWhiteMove')

\* A genmove command whose engine stays within the scope.
Genmove(c) ==
    /\ genmove_cmd(c)
    /\ (reply'.resp = "" /\ reply'.coord # <<>>)
          => (InScope(reply'.coord) /\ Cardinality(Stones \ Tracked) < MaxGen)

\* A boardsize command that leaves at most `stale` tracked cells behind, all of
\* them cells of the new board.
Boardsize(n, stale) ==
    /\ boardsize_cmd(n)
    /\ Cardinality(Tracked) <= stale
    /\ Tracked \subseteq (1..n) \X (1..n)

Next ==
    \/ start_connection
    \/ clear_board_cmd
    \/ \E n \in ResizeTo \cup BadSizes : Boardsize(n, MaxStale)
    \/ \E c \in Colors, s \in FullStrs : Play(c, s)
    \/ \E c \in Colors : Genmove(c)
    \/ gogui_rules_legal_moves_cmd
    \/ gogui_rules_final_result_cmd

Spec == Init /\ [][Next]_vars

\* A game driven by clear_board and play placements alone, over all regions.
NextPlay ==
    \/ start_connection
    \/ clear_board_cmd
    \/ \E c \in Colors, s \in PlayStrs : Play(c, s)

SpecPlay == Init /\ [][NextPlay]_vars

\* Games on the smallest board that boardsize restarts, asked for their result.
NextResize ==
    \/ start_connection
    \/ clear_board_cmd
    \/ Boardsize(2, MaxStaleSmall)
    \/ \E c \in Colors, s \in {StrOf(coord) : coord \in SmallBoard} : Play(c, s)
    \/ gogui_rules_final_result_cmd

SpecResize == Init /\ [][NextResize]_vars

\* Games on the first row that boardsize cuts down to the smallest board,
\* whatever cells of the row are tracked.
RowStrs == {StrOf(<<1, c>>) : c \in 1..BigSize}

Shrink ==
    /\ boardsize_cmd(2)
    /\ Cardinality(Tracked) <= MaxStaleRow

NextShrink ==
    \/ start_connection
    \/ clear_board_cmd
    \/ Shrink
    \/ \E c \in Colors, s \in RowStrs : Play(c, s)

SpecShrink == Init /\ [][NextShrink]_vars

\* The coordinate functions on their own: a cell of the board is formatted as
\* genmove and the legal-move list format it, and the text is parsed back as
\* play parses it.
CoordSizes == {2, 9, MAXSIZE}

InitCoord ==
    /\ running = TRUE
    /\ size \in CoordSizes
    /\ board = EmptyBoard(size)
    /\ current_player = BLACK
    /\ trackerSet = FALSE
    /\ dictStoreBlackMove = EmptyDict
    /\ dictStoreWhiteMove = EmptyDict
    /\ colorMax = [b |-> 0, w |-> 0]
    /\ reply = NoReply

FormatPoint(coord) ==
    /\ Waiting
    /\ reply' = [Answer("format_point",
                        IF format_point(coord) = ValueError THEN "exception" ELSE "")
                     EXCEPT !.coord = coord, !.moves = {format_point(coord)}]
    /\ UNCHANGED <<running, size, board, current_player, tracker>>

MoveToCoord ==
    /\ running
    /\ reply.cmd = "format_point"
    /\ reply.resp = ""
    /\ \E m \in reply.moves :
          reply' = [Answer("move_to_coord", "")
                       EXCEPT !.coord = reply.coord,
                              !.moves = {move_to_coord(PointStr(m[1], m[2]), size)}]
    /\ UNCHANGED <<running, size, board, current_player, tracker>>

NextCoord ==
    \/ start_connection
    \/ \E coord \in (1..size) \X (1..size) : FormatPoint(coord)
    \/ MoveToCoord

SpecCoord == InitCoord /\ [][NextCoord]_vars

---------------------------------------------------------------------------
(* What the claims speak of: the stones on the board and the answers given *)

Black == "b"
White == "w"

OnBoard(coord) == coord[1] \in 1..size /\ coord[2] \in 1..size

\* coord holds a stone of colour c.
Own(coord, c) ==
    OnBoard(coord) /\ board[coord_to_point(coord[1], coord[2], size)] = color_to_int(c)

Cells == {coord \in (1..size) \X (1..size) : TRUE}

\* One step along each line family.
Along(key) ==
    CASE key = "upDown"       -> <<1, 0>>
      [] key = "leftRight"    -> <<0, 1>>
      [] key = "backslash"    -> <<1, 1>>
      [] key = "forwardslash" -> <<1, -1>>

Back(key) == <<0 - Along(key)[1], 0 - Along(key)[2]>>

\* The number of consecutive stones of c next to coord, going by step.
Side(coord, step, c) ==
    CHOOSE n \in 0..size :
        /\ \A i \in 1..n : Own(At(coord, step, i), c)
        /\ ~Own(At(coord, step, n + 1), c)

\* The size of the run of c through coord along key, coord counted as c's.
RunThrough(coord, key, c) == 1 + Side(coord, Back(key), c) + Side(coord, Along(key), c)

\* The cells of that run.
RunCells(coord, key, c) ==
    {At(coord, Along(key), i) : i \in (0 - Side(coord, Back(key), c))..Side(coord, Along(key), c)}

SomeFive == colorMax[White] >= 5 \/ colorMax[Black] >= 5

\* The answer of a play command that put a stone on the board.
Placed(r) == r.cmd = "play" /\ r.resp = "" /\ r.coord # <<>>

\* The answer of a genmove command that put a stone on the board.
Generated(r) == r.cmd = "genmove" /\ r.resp = "" /\ r.coord # <<>>

---------------------------------------------------------------------------
\* C1: whenever the board holds five or more consecutive stones of one player
\* along a row, a column or a diagonal, that player's colorMax is at least 5.
C1_WinDetected ==
    \A c \in Colors : \A coord \in Cells : \A key \in Directions :
        (Own(coord, c) /\ RunThrough(coord, key, c) >= 5) => colorMax[c] >= 5

\* C2: after clear_board and play placements, every stone stores, for each
\* direction, the number of stones of the maximal run it lies in.
C2_RunUniformity ==
    \A c \in Colors : \A coord \in Cells :
        Own(coord, c) =>
            /\ coord \in DOMAIN dictOf(c)
            /\ \A key \in Directions : dictOf(c)[coord][key] = RunThrough(coord, key, c)

\* A placement has just joined two runs on a diagonal into a run of four or more.
C2_Witness ==
    /\ Placed(reply)
    /\ \E key \in {"backslash", "forwardslash"} :
          /\ Own(At(reply.coord, Along(key), 1), reply.color)
          /\ Own(At(reply.coord, Back(key), 1), reply.color)
          /\ dictOf(reply.color)[reply.coord][key] >= 4

\* C3: a placement on the one empty cell between two runs of the player's own
\* stones of lengths L1 and L2 leaves L1+L2+1 stored in the placed cell and in
\* every cell of both runs, and the player's colorMax at least L1+L2+1.
C3_Merge(c, coord, key) ==
    LET L1 == Side(coord, Back(key), c)
        L2 == Side(coord, Along(key), c)
    IN  (L1 >= 1 /\ L2 >= 1)
        => /\ \A i \in (0 - L1)..L2 :
                 /\ At(coord, Along(key), i) \in DOMAIN dictOf(c)'
                 /\ dictOf(c)'[At(coord, Along(key), i)][key] = L1 + L2 + 1
           /\ colorMax'[c] >= L1 + L2 + 1

C3_MergeCorrect ==
    [][\A c \in Colors : \A coord \in Cells :
          (Placed(reply') /\ reply'.color = c /\ reply'.coord = coord)
              => \A key \in Directions : C3_Merge(c, coord, key)]_vars

GameOverMsg == "One side is win game over!"

\* C4: the game is treated as won exactly when some colorMax is 5 or more: a
\* placement on an empty cell of the board is refused as game over, the list of
\* legal moves is empty and genmove resigns if so, and if not (a longest run of
\* 4 included) the placement is made, every empty cell is listed and genmove
\* does not resign; and the placement that lengthens a run of the player's
\* stones to 5 or more makes the game won in that same step.

C4_Step ==
    /\ (Placed(reply') \/ (reply'.cmd = "play" /\ reply'.resp = GameOverMsg))
          => (reply'.resp = GameOverMsg <=> SomeFive)
    /\ (reply'.cmd = "play" /\ reply'.resp = GameOverMsg) => UNCHANGED board
    /\ (reply'.cmd = "genmove" /\ reply'.resp # "exception")
          => (reply'.resp = "resign" <=> SomeFive)
    /\ (reply'.cmd = "legal_moves" /\ reply'.resp # "exception")
          => reply'.moves = IF SomeFive THEN {}
                            ELSE {format_point(coord) : coord \in {x \in Cells : Own(x, "e")}}
    /\ \A c \in Colors : \A coord \in Cells :
          (/\ Placed(reply') /\ reply'.color = c /\ reply'.coord = coord
           /\ \E key \in Directions : RunThrough(coord, key, c) >= 5)
              => colorMax'[c] >= 5

C4_WinExact == [][C4_Step]_vars

\* C5: each player's colorMax is the greatest run length stored for that
\* player over all tracked cells and directions, 0 with no tracked cell.
Stored(c) == {dictOf(c)[k][key] : k \in DOMAIN dictOf(c), key \in Directions}

C5_MaxIsGreatest ==
    \A c \in Colors : colorMax[c] = MaxOf(Stored(c) \cup {0})

\* The stone just placed lies in no run as long as the player's longest.
C5_Witness ==
    /\ Placed(reply)
    /\ colorMax[reply.color] >= 3
    /\ \A key \in Directions : dictOf(reply.color)[reply.coord][key] < colorMax[reply.color]

\* C6: between two board resets no colorMax decreases, and a colorMax changes
\* only with a placement of that player made by play.
Resets(r) == r.cmd \in {"clear_board", "boardsize"}

C6_Monotonic ==
    [][~Resets(reply') =>
          \A c \in Colors :
              /\ colorMax'[c] >= colorMax[c]
              /\ colorMax'[c] # colorMax[c] => (Placed(reply') /\ reply'.color = c)]_vars

\* A placement has just raised its player's colorMax above the other's while
\* the other player has stones too.
C6_Witness ==
    /\ Placed(reply)
    /\ \E c \in Colors :
          /\ c # reply.color
          /\ colorMax[c] >= 1
          /\ colorMax[reply.color] > colorMax[c]
          /\ dictOf(reply.color)[reply.coord]["leftRight"] = colorMax[reply.color]

\* C7: a play command refused because the cell is occupied, the coordinate is
\* off the board or the game is won changes neither the board, nor the legal
\* moves, nor the run-length maps, nor colorMax.
ColumnOf(l) == Cardinality({x \in 0..l : x # LetterI})

OffBoard(s) == s.col_c = LetterI \/ ~OnBoard(<<s.row, ColumnOf(s.col_c)>>)

Occupied(s) == \E c \in Colors : Own(<<s.row, ColumnOf(s.col_c)>>, c)

\* (stated by contraposition: a step that changes the size, the board, the
\* player to move or the tracker, of which the legal moves are a function, is
\* the step of no refused play command)
C7_NoOp == UNCHANGED <<size, board, current_player, tracker>>

C7_RejectedIsNoOp ==
    [][~C7_NoOp =>
          \A c \in Colors : \A s \in PlayStrs :
              ~(/\ OffBoard(s) \/ Occupied(s) \/ SomeFive
                /\ play_cmd(c, s))]_vars

\* A second placement on a cell has just been refused; other cells are empty.
C7_Witness ==
    /\ reply.cmd = "play"
    /\ reply.resp = "Illegal Move"
    /\ \E coord \in Cells : ~Own(coord, "e")
    /\ legal_moves # {}

\* C8: after clear_board and after boardsize both run-length maps are empty
\* and both colorMax values are 0.
C8_ResetDiscards ==
    (Resets(reply) /\ reply.resp = "")
        => (Tracked = {} /\ colorMax[Black] = 0 /\ colorMax[White] = 0)

\* C9: the final result is a win of a player whose colorMax is 5 or more, also
\* on a full board; a draw when no cell is empty and no colorMax is 5 or more;
\* unknown otherwise.
C9_FinalResult ==
    (reply.cmd = "final_result" /\ reply.resp # "exception")
        => IF SomeFive
           THEN \/ reply.resp = "white win" /\ colorMax[White] >= 5
                \/ reply.resp = "black win" /\ colorMax[Black] >= 5
           ELSE IF \A coord \in Cells : ~Own(coord, "e")
           THEN reply.resp = "draw"
           ELSE reply.resp = "unknown"

\* C10: once some colorMax is 5 or more, no play or genmove command changes
\* the board until the board is reset.
C10_NoPlacementAfterWin ==
    [][(SomeFive /\ ~Resets(reply')) => board' = board]_vars

\* genmove has just resigned on a board with five in a row and an empty cell.
C10_Witness ==
    /\ reply.cmd = "genmove"
    /\ reply.resp = "resign"
    /\ \E coord \in Cells : Own(coord, "e")
    /\ \E c \in Colors : \E coord \in Cells :
          Own(coord, c) /\ RunThrough(coord, "leftRight", c) >= 5

\* C11: a play command sent once some colorMax is 5 or more, a pass included,
\* is refused and changes neither the board, nor the player to move, nor the
\* run-length maps, nor colorMax.
Refusals == {GameOverMsg, "Illegal Move", "Error: point"}

C11_RejectedAfterWin ==
    [][(SomeFive /\ reply'.cmd = "play")
          => (/\ reply'.resp \in Refusals
              /\ UNCHANGED <<size, board, current_player, tracker>>)]_vars

\* C12: gogui-rules_legal_moves answers with exactly the empty cells of the
\* board when no colorMax is 5 or more and an empty cell remains, and with no
\* cell when a colorMax is 5 or more or the board is full.
EmptyCells == {coord \in Cells : Own(coord, "e")}

C12_Listed ==
    IF SomeFive \/ EmptyCells = {} THEN {} ELSE {format_point(coord) : coord \in EmptyCells}

C12_LegalMoves ==
    [][reply'.cmd = "legal_moves"
          => (reply'.resp # "exception" /\ reply'.moves = C12_Listed)]_vars

\* C13: a pass by either colour while no colorMax is 5 or more is accepted and
\* changes only the player to move, who becomes the opponent of the passing
\* colour; the board, both run-length maps and colorMax are unchanged.
C13_PassOnlyTurn ==
    [][\A c \in Colors :
          (~SomeFive /\ play_cmd(c, PassStr))
              => (/\ reply'.cmd = "play" /\ reply'.resp = ""
                  /\ current_player' = opponent(color_to_int(c))
                  /\ UNCHANGED <<running, size, board, tracker>>)]_vars

\* Black's pass has just been accepted in a game with stones of both players.
C13_Witness ==
    /\ reply.cmd = "play" /\ reply.resp = "" /\ reply.coord = <<>>
    /\ current_player = WHITE
    /\ ~SomeFive
    /\ DOMAIN dictStoreBlackMove # {} /\ DOMAIN dictStoreWhiteMove # {}

\* C14: a boardsize command with a size outside 2..MAXSIZE is answered with an
\* error and leaves the existing game as it was: the connection goes on serving
\* the same board size, board, run-length maps and colorMax.
C14_BadSizeRefused ==
    [][\A n \in BadSizes :
          boardsize_cmd(n)
              => (/\ reply'.cmd = "boardsize" /\ reply'.resp # ""
                  /\ running'
                  /\ UNCHANGED <<size, board, current_player, tracker>>)]_vars

\* C15: for each player the cells with an entry in that player's run-length
\* map are exactly the cells that hold that player's stones, whichever command
\* placed them.
C15_TrackedIsOccupied ==
    \A c \in Colors : DOMAIN dictOf(c) = {coord \in Cells : Own(coord, c)}

\* C16: before any clear_board command the tracker is already usable: a play
\* command on an empty cell of the board places the stone and records it, and
\* the legal-move and final-result queries are answered.
C16_UsableFromStart ==
    [][~trackerSet =>
          /\ \A c \in Colors : \A coord \in Cells :
                (Own(coord, "e") /\ play_cmd(c, StrOf(coord)))
                    => (Placed(reply') /\ coord \in DOMAIN dictOf(c)')
          /\ reply'.cmd \in {"legal_moves", "final_result"}
                => reply'.resp # "exception"]_vars

\* C17: every placement update ends, and each of its walks from the placed
\* cell, in each of the four directions and on either side, visits at most N
\* cells, N the size of the board, before it meets a cell absent from the map.
RECURSIVE WalkLen(_, _, _, _)
WalkLen(d, coord, step, i) ==
    IF At(coord, step, i) \in DOMAIN d THEN 1 + WalkLen(d, coord, step, i + 1) ELSE 0

C17_WalksBounded ==
    [][\A c \in Colors : \A coord \in (1..BigSize) \X (1..BigSize) :
          (Placed(reply') /\ reply'.color = c /\ reply'.coord = coord)
              => \A key \in Directions :
                    /\ WalkLen(dictOf(c)', coord, Step1(key), 1) <= size
                    /\ WalkLen(dictOf(c)', coord, Step2(key), 1) <= size]_vars

\* C18: for every board size N in 2..MAXSIZE and every cell (row, col) of the
\* board, format_point gives a column letter of a..z other than i followed by
\* the row, and move_to_coord of that text with size N gives (row, col) again.
C18_RoundTrip ==
    /\ reply.cmd = "format_point"
          => (/\ reply.resp = ""
              /\ \A m \in reply.moves :
                    m[1] \in 0..25 /\ m[1] # LetterI /\ m[2] = reply.coord[1])
    /\ reply.cmd = "move_to_coord" => reply.moves = {reply.coord}

\* C19: a placement recorded for one player leaves every entry of the other
\* player's run-length map and the other player's colorMax as they were.
C19_OpponentUntouched ==
    [][\A c \in Colors :
          (Placed(reply') /\ reply'.color = c)
              => \A o \in Colors \ {c} :
                    dictOf(o)' = dictOf(o) /\ colorMax'[o] = colorMax[o]]_vars

\* A stone has just been placed next to a run of two of the other player.
C19_Witness ==
    /\ Placed(reply)
    /\ \E o \in Colors \ {reply.color} :
          /\ At(reply.coord, <<0, 1>>, 1) \in DOMAIN dictOf(o)
          /\ dictOf(o)[At(reply.coord, <<0, 1>>, 1)]["leftRight"] = 2
          /\ colorMax[o] = 2

\* C20: a placement by a player on a cell changes the value stored for a cell
\* and a direction in that player's map only if that cell lies on the line
\* through the placed cell in that direction and is joined to it by an unbroken
\* chain of the player's stones; every other stored value is kept.
C20_OnlyTheRun ==
    [][\A c \in Colors : \A coord \in Cells :
          (Placed(reply') /\ reply'.color = c /\ reply'.coord = coord)
              => \A k \in DOMAIN dictOf(c) : \A key \in Directions :
                    dictOf(c)'[k][key] # dictOf(c)[k][key]
                        => k \in RunCells(coord, key, c)]_vars

\* C21: at most one player's colorMax is 5 or more, so the final result does
\* not depend on which player gogui-rules_final_result tests first.
C21_OneWinner ==
    /\ ~(colorMax[White] >= 5 /\ colorMax[Black] >= 5)
    /\ (reply.cmd = "final_result" /\ reply.resp = "white win") => colorMax[Black] < 5

\* A play command has just been refused because Black has won, while White's
\* longest stored run is 4.
C21_Witness ==
    /\ reply.cmd = "play" /\ reply.resp = GameOverMsg
    /\ colorMax[Black] >= 5
    /\ colorMax[White] = 4

=============================================================================
